---- MODULE Spec2Model ----
(***************************************************************************)
(* Model of src/main.ts: the tone colouring editor extension.              *)
(*                                                                         *)
(* JavaScript strings are sequences of UTF-16 code units (naturals).       *)
(* Positions are 0-based as in the source; TLA+ sequences are 1-based, so  *)
(* the unit at position p of s is s[p + 1].                                *)
(* Colour values are opaque TLA+ strings.                                  *)
(***************************************************************************)
EXTENDS Integers, Sequences, FiniteSets, TLC

VARIABLES text, viewport, settings, data, registered, instance, decorations,
          lastTrigger, pinyinTable, numericPinyin, result, pass, pc

vars == <<text, viewport, settings, data, registered, instance, decorations,
          lastTrigger, pinyinTable, numericPinyin, result, pass, pc>>

\* ------------------------------------------------------------------ bounds

\* longest buffer enumerated for a scanning pass
MaxDoc == 3
\* longest romanization string enumerated
MaxPinyinLen == 3
\* longest buffer the modelled editor holds
MaxHostDoc == 1

\* ----------------------------------------------------------- JS primitives

\* the value `undefined` (no string holds the unit -1)
Undefined == <<-1>>

\* all strings over the units U of length at most n
StringsUpTo(U, n) == UNION {[1..k -> U] : k \in 0..n}

\* s[p]: the one-unit string at position p, undefined outside the string
CharAt(s, p) == IF p >= 0 /\ p < Len(s) THEN <<s[p + 1]>> ELSE Undefined

IsHighSurrogate(u) == u >= 55296 /\ u <= 56319
IsLowSurrogate(u) == u >= 56320 /\ u <= 57343

\* String.prototype.codePointAt(p) for p inside s
codePointAt(s, p) ==
    IF IsHighSurrogate(s[p + 1]) /\ p + 1 < Len(s) /\ IsLowSurrogate(s[p + 2])
    THEN (s[p + 1] - 55296) * 1024 + (s[p + 2] - 56320) + 65536
    ELSE s[p + 1]

\* String.prototype.indexOf(v) for a one-unit v: -1 when absent
indexOf(s, v) ==
    IF \E i \in 1..Len(s) : s[i] = v
    THEN (CHOOSE i \in 1..Len(s) : s[i] = v /\ \A j \in 1..(i - 1) : s[j] # v) - 1
    ELSE -1

\* String.prototype.lastIndexOf(v) for a one-unit v: -1 when absent
lastIndexOf(s, v) ==
    IF \E i \in 1..Len(s) : s[i] = v
    THEN (CHOOSE i \in 1..Len(s) : s[i] = v /\ \A j \in (i + 1)..Len(s) : s[j] # v) - 1
    ELSE -1

\* s.slice(a, b) for 0 <= a, b
slice(s, a, b) == SubSeq(s, a + 1, IF b < Len(s) THEN b ELSE Len(s))

\* --------------------------------------------------------------- settings

DEFAULT_SETTINGS ==
    [tone1 |-> "blue", tone2 |-> "green", tone3 |-> "black", tone4 |-> "red",
     tone0 |-> "gray"]

ToneKeys == {"tone1", "tone2", "tone3", "tone4", "tone0"}

\* Object.assign({}, DEFAULT_SETTINGS, saved): saved is a partial record
loadSettings(saved) ==
    [k \in ToneKeys |-> IF k \in DOMAIN saved THEN saved[k] ELSE DEFAULT_SETTINGS[k]]

\* ------------------------------------------------------- tone and diacritic

\* [a-z] under the i flag, plus the two listed letters u-umlaut (252, 220)
IsLetter(u) == (u >= 97 /\ u <= 122) \/ (u >= 65 /\ u <= 90) \/ u = 252 \/ u = 220

\* \d
IsDigit(u) == u >= 48 /\ u <= 57

\* numericPinyin.match(/^([a-z\u00FC\u00DC]+)(\d)?$/i): null, or the two groups
MatchPinyin(s) ==
    IF Len(s) >= 1 /\ \A i \in 1..Len(s) : IsLetter(s[i])
    THEN [matched |-> TRUE, base |-> s, toneStr |-> Undefined]
    ELSE IF Len(s) >= 2 /\ IsDigit(s[Len(s)])
             /\ \A i \in 1..(Len(s) - 1) : IsLetter(s[i])
         THEN [matched |-> TRUE, base |-> SubSeq(s, 1, Len(s) - 1),
               toneStr |-> <<s[Len(s)]>>]
         ELSE [matched |-> FALSE, base |-> Undefined, toneStr |-> Undefined]

\* parseInt(toneStr, 10) of a one-digit string
parseInt(toneStr) == toneStr[1] - 48

\* the table of marked letters: letter -> its four tone variants
toneMap ==
    (97 :> <<257, 225, 462, 224>>) @@ (101 :> <<275, 233, 283, 232>>) @@
    (105 :> <<299, 237, 464, 236>>) @@ (111 :> <<333, 243, 466, 242>>) @@
    (117 :> <<363, 250, 468, 249>>) @@ (252 :> <<470, 472, 474, 476>>) @@
    (65 :> <<256, 193, 461, 192>>) @@ (69 :> <<274, 201, 282, 200>>) @@
    (73 :> <<298, 205, 463, 204>>) @@ (79 :> <<332, 211, 465, 210>>) @@
    (85 :> <<362, 218, 467, 217>>) @@ (220 :> <<469, 471, 473, 475>>)

\* a, A, o, O, e, E
vowelsOrder == <<97, 65, 111, 79, 101, 69>>

\* the for loop over vowelsOrder from index i: the first listed vowel present
RECURSIVE FirstListedVowel(_, _)
FirstListedVowel(syllable, i) ==
    IF i > Len(vowelsOrder)
    THEN [targetIdx |-> -1, chosenVowel |-> <<>>]
    ELSE IF indexOf(syllable, vowelsOrder[i]) # -1
         THEN [targetIdx |-> indexOf(syllable, vowelsOrder[i]),
               chosenVowel |-> <<vowelsOrder[i]>>]
         ELSE FirstListedVowel(syllable, i + 1)

\* [iIuU\u00FC\u00DC]
IsIUV(u) == u \in {105, 73, 117, 85, 252, 220}

\* syllable.match(/[iIuU\u00FC\u00DC]/g): the matches in order (empty models null)
vowelMatch(syllable) == SelectSeq(syllable, IsIUV)

\* variant of LastIUV that takes the first match instead of the last
LastIUVFirst(syllable) ==
    IF Len(vowelMatch(syllable)) > 0
    THEN [targetIdx |-> indexOf(syllable, vowelMatch(syllable)[1]),
          chosenVowel |-> <<vowelMatch(syllable)[1]>>]
    ELSE [targetIdx |-> -1, chosenVowel |-> <<>>]

\* the fallback branch: the last i/u/u-umlaut match and its last index
LastIUV(syllable) ==
    IF Len(vowelMatch(syllable)) > 0
    THEN [targetIdx |->
              lastIndexOf(syllable, vowelMatch(syllable)[Len(vowelMatch(syllable))]),
          chosenVowel |-> <<vowelMatch(syllable)[Len(vowelMatch(syllable))]>>]
    ELSE [targetIdx |-> -1, chosenVowel |-> <<>>]

\* the vowel that carries the mark
TargetVowel(syllable) ==
    IF FirstListedVowel(syllable, 1).targetIdx # -1
    THEN FirstListedVowel(syllable, 1)
    ELSE LastIUV(syllable)

\* variant of addToneMark whose guard lets tone 0 through: toneMap[v][-1] is
\* undefined, which the concatenation renders as the word "undefined"
addToneMarkOffByOne(syllable, tone) ==
    IF tone < 0 \/ tone > 4
    THEN syllable
    ELSE LET t == TargetVowel(syllable)
         IN IF t.targetIdx # -1 /\ Len(t.chosenVowel) = 1
                /\ t.chosenVowel[1] \in DOMAIN toneMap
            THEN slice(syllable, 0, t.targetIdx)
                    \o (IF tone = 0
                        THEN <<117, 110, 100, 101, 102, 105, 110, 101, 100>>
                        ELSE <<toneMap[t.chosenVowel[1]][tone]>>)
                    \o slice(syllable, t.targetIdx + 1, Len(syllable))
            ELSE syllable

addToneMark(syllable, tone) ==
    IF tone < 1 \/ tone > 4
    THEN syllable
    ELSE LET t == TargetVowel(syllable)
         IN IF t.targetIdx # -1 /\ Len(t.chosenVowel) = 1
                /\ t.chosenVowel[1] \in DOMAIN toneMap
            THEN slice(syllable, 0, t.targetIdx)
                    \o <<toneMap[t.chosenVowel[1]][tone]>>
                    \o slice(syllable, t.targetIdx + 1, Len(syllable))
            ELSE syllable

\* the tone number read from the second group (0 when the group is absent)
ToneOf(toneStr) == IF toneStr # Undefined THEN parseInt(toneStr) ELSE 0

\* variant of ColorOf whose chain lacks the branch of tone 4
ColorOfNoFourth(tone, s) ==
    IF tone = 1 THEN s.tone1
    ELSE IF tone = 2 THEN s.tone2
    ELSE IF tone = 3 THEN s.tone3
    ELSE s.tone0

\* the if/else-if chain on tone
ColorOf(tone, s) ==
    IF tone = 1 THEN s.tone1
    ELSE IF tone = 2 THEN s.tone2
    ELSE IF tone = 3 THEN s.tone3
    ELSE IF tone = 4 THEN s.tone4
    ELSE s.tone0

\* variant of getAccentedColoredPinyin that gives the tone colour only to a
\* syllable that received a mark
getAccentedColoredPinyinMarkedOnly(np, s) ==
    IF np = Undefined
    THEN [accented |-> Undefined, color |-> "", threw |-> TRUE]
    ELSE LET match == MatchPinyin(np)
         IN IF ~match.matched
            THEN [accented |-> np, color |-> s.tone0, threw |-> FALSE]
            ELSE [accented |-> addToneMark(match.base, ToneOf(match.toneStr)),
                  color |-> IF addToneMark(match.base, ToneOf(match.toneStr)) = match.base
                            THEN s.tone0
                            ELSE ColorOf(ToneOf(match.toneStr), s),
                  threw |-> FALSE]

\* threw: the call on an undefined receiver raises TypeError
getAccentedColoredPinyin(np, s) ==
    IF np = Undefined
    THEN [accented |-> Undefined, color |-> "", threw |-> TRUE]
    ELSE LET match == MatchPinyin(np)
         IN IF ~match.matched
            THEN [accented |-> np, color |-> s.tone0, threw |-> FALSE]
            ELSE [accented |-> addToneMark(match.base, ToneOf(match.toneStr)),
                  color |-> ColorOf(ToneOf(match.toneStr), s),
                  threw |-> FALSE]

\* ------------------------------------------------------------ scanning pass

\* variant of isChineseChar whose range excludes its first code point
isChineseCharOpen(char) == \E i \in 1..Len(char) : char[i] > 19968 /\ char[i] <= 40959

\* /[\u4E00-\u9FFF]/.test(char): some unit of char lies in the range
isChineseChar(char) == \E i \in 1..Len(char) : char[i] >= 19968 /\ char[i] <= 40959

\* variant of charSize with the threshold 0xff in place of 0xffff
charSizeLowThreshold(char) == IF codePointAt(char, 0) > 255 THEN 2 ELSE 1

\* char.codePointAt(0)! > 0xffff ? 2 : 1, char being the one-unit string text[pos]
charSize(char) == IF codePointAt(char, 0) > 65535 THEN 2 ELSE 1

\* pinyin(char, {toneType: 'num', type: 'array'}): the romanizer's array for char
pinyin(table, char) == IF char[1] \in DOMAIN table THEN table[char[1]] ELSE <<char>>

\* pyArr[0]: undefined for an empty array
First(pyArr) == IF Len(pyArr) > 0 THEN pyArr[1] ELSE Undefined

\* variant of OrEmpty without the fallback: pyArr[0] as it is
OrEmptyMissing(v) == v

\* v || "": the empty string for undefined and for the empty string
OrEmpty(v) == IF v = Undefined \/ v = <<>> THEN <<>> ELSE v

\* Decoration.mark({attributes: {style: `color:${color};`, title: accented}})
Mark(color, accented) == [style |-> <<"color:", color, ";">>, title |-> accented]

\* builder.add(from, to, deco): raises when from is below the last added from
BuilderAdd(st, from, to, deco) ==
    IF Len(st.spans) > 0 /\ from < st.spans[Len(st.spans)].from
    THEN [st EXCEPT !.error = TRUE]
    ELSE [st EXCEPT !.spans = Append(@, [from |-> from, to |-> to, deco |-> deco])]

\* one iteration of the for loop at st.pos
LoopBody(txt, s, table, st) ==
    LET char == CharAt(txt, st.pos)
    IN IF char = Undefined
       THEN [st EXCEPT !.error = TRUE, !.scanned = Append(@, st.pos)]
       ELSE LET size == charSize(char)
                seen == [st EXCEPT !.scanned = Append(@, st.pos)]
            IN IF isChineseChar(char)
               THEN LET got == getAccentedColoredPinyin(OrEmpty(First(pinyin(table, char))), s)
                    IN IF got.threw
                       THEN [seen EXCEPT !.error = TRUE]
                       ELSE [BuilderAdd(seen, st.pos, st.pos + size,
                                        Mark(got.color, got.accented))
                                EXCEPT !.pos = @ + size]
               ELSE [seen EXCEPT !.pos = @ + size]

\* for (let pos = from; pos < to; ) { ... }, run for at most `left` iterations
RECURSIVE ScanLoop(_, _, _, _, _, _)
ScanLoop(txt, to, s, table, st, left) ==
    IF st.error \/ ~(st.pos < to)
    THEN st
    ELSE IF left = 0
         THEN [st EXCEPT !.running = TRUE]
         ELSE ScanLoop(txt, to, s, table, LoopBody(txt, s, table, st), left - 1)

\* the whole pass over [vp.from, vp.to): the spans added, the positions scanned,
\* the position the loop stopped at, whether it raised, and whether it was still
\* running after vp.to - vp.from iterations
ScanPass(txt, vp, s, table) ==
    ScanLoop(txt, vp.to, s, table,
             [pos |-> vp.from, spans |-> <<>>, scanned |-> <<>>, error |-> FALSE,
              running |-> FALSE],
             vp.to - vp.from)

\* builder.finish(): the decoration set of the pass
computeDecorations(txt, vp, s, table) == ScanPass(txt, vp, s, table).spans

\* ------------------------------------------------------------- view plugin

\* variant of CapturedSettings where the plugin was handed a copy of the
\* settings made at registration
CapturedSettingsCopy == registered

\* the closure variable `settings` of chineseColorViewPlugin: the very object
\* this.settings names, so a read sees the object's current fields
CapturedSettings == settings

\* variant of update that recomputes on a document change only
updateDocOnly(dec, upd, table) ==
    IF upd.docChanged
    THEN computeDecorations(upd.text, upd.viewport, CapturedSettings, table)
    ELSE dec

\* update(update): recompute on a document or viewport change, else keep
update(dec, upd, table) ==
    IF upd.docChanged \/ upd.viewportChanged
    THEN computeDecorations(upd.text, upd.viewport, CapturedSettings, table)
    ELSE dec

\* ------------------------------------------------------------ input domains

\* two settings values with five distinct colours each
SettingsSet ==
    {DEFAULT_SETTINGS,
     [tone1 |-> "#111", tone2 |-> "#222", tone3 |-> "#333", tone4 |-> "#444",
      tone0 |-> "#000"]}

\* the twelve markable letters, m, the digits 0-5 and 9, and !
PinyinUnits ==
    {97, 65, 111, 79, 101, 69, 105, 73, 117, 85, 252, 220, 109,
     48, 49, 50, 51, 52, 53, 57, 33}

\* the tone arguments tried on addToneMark
ToneArgs == {0, 1, 2, 3, 4, 5, 9}

\* A, the first and last ideograph of the range, a high and a low surrogate
ScanUnits == {65, 19968, 40959, 55360, 56320}

\* "I love" followed by U+4E2D U+6587
ILoveZhongWen == <<73, 32, 108, 111, 118, 101, 32, 20013, 25991>>

\* every range [from, to) inside txt
Viewports(txt) == {[from |-> f, to |-> t] : f \in 0..Len(txt), t \in 0..Len(txt)}

\* what the romanizer may return for a character: an empty array, an empty
\* string, ma3, a string of no romanization shape (the character U+4E00 itself)
PyResults == {<<>>, << <<>> >>, << <<109, 97, 51>> >>, << <<19968>> >>}

ChineseUnits == {19968, 40959, 20013, 25991}

\* romanizers: one result for U+4E00 and U+4E2D, one for U+9FFF and U+6587
Tables ==
    {[c \in ChineseUnits |-> IF c \in {19968, 20013} THEN r1 ELSE r2] :
        r1 \in PyResults, r2 \in PyResults}

\* the editor's romanizer: yi1 for U+4E00
HostTable == [c \in {19968} |-> << <<121, 105, 49>> >>]

\* A and U+4E00
HostUnits == {65, 19968}

\* what loadData() may return: nothing saved, or a partial or full record
SavedData ==
    {[k \in {} |-> ""], [k \in {"tone1"} |-> "purple"],
     [k \in ToneKeys |-> IF k = "tone0" THEN "purple" ELSE DEFAULT_SETTINGS[k]]}

\* what the user may type into a colour field
EditValues == {"purple"}

NoResult == [op |-> "none", tone |-> 0, accented |-> <<>>, color |-> "", threw |-> FALSE]
NoPass == [pos |-> 0, spans |-> <<>>, scanned |-> <<>>, error |-> FALSE, running |-> FALSE]
NoTrigger == [text |-> <<>>, viewport |-> [from |-> 0, to |-> 0], settings |-> DEFAULT_SETTINGS]

\* ------------------------------------------------- the editor: specification

\* after onload: settings loaded and merged, the extension registered, no view yet
Init ==
    /\ data \in SavedData
    /\ settings = loadSettings(data)
    /\ registered = settings
    /\ instance = FALSE
    /\ text = <<>>
    /\ viewport = [from |-> 0, to |-> 0]
    /\ decorations = <<>>
    /\ lastTrigger = NoTrigger
    /\ pinyinTable = HostTable
    /\ numericPinyin = <<>>
    /\ result = NoResult
    /\ pass = NoPass
    /\ pc = "host"

\* constructor(view): the host creates the plugin instance for a view
Construct ==
    /\ ~instance
    /\ \E t \in StringsUpTo(HostUnits, MaxHostDoc) : \E vp \in Viewports(t) :
        /\ vp.from <= vp.to
        /\ text' = t
        /\ viewport' = vp
        /\ decorations' = computeDecorations(t, vp, CapturedSettings, pinyinTable)
        /\ lastTrigger' = [text |-> t, viewport |-> vp, settings |-> settings]
    /\ instance' = TRUE
    /\ UNCHANGED <<settings, data, registered, pinyinTable, numericPinyin, result, pass, pc>>

\* update(update): the host reports a transaction; the document or the viewport
\* differs only when the matching flag is set
Update ==
    /\ instance
    /\ \E dc \in BOOLEAN, vc \in BOOLEAN :
       \E t \in StringsUpTo(HostUnits, MaxHostDoc) : \E vp \in Viewports(t) :
        /\ vp.from <= vp.to
        /\ t # text => dc
        /\ vp # viewport => vc
        /\ text' = t
        /\ viewport' = vp
        /\ decorations' =
              update(decorations,
                     [docChanged |-> dc, viewportChanged |-> vc, text |-> t, viewport |-> vp],
                     pinyinTable)
        /\ lastTrigger' =
              IF dc \/ vc
              THEN [text |-> t, viewport |-> vp, settings |-> settings]
              ELSE lastTrigger
    /\ UNCHANGED <<settings, data, registered, instance, pinyinTable, numericPinyin,
                   result, pass, pc>>

\* an onChange handler: assign the field in place, then saveSettings()
OnChange(key, value) ==
    /\ settings' = [settings EXCEPT ![key] = value]
    /\ data' = settings'
    /\ UNCHANGED <<text, viewport, registered, instance, decorations, lastTrigger,
                   pinyinTable, numericPinyin, result, pass, pc>>

OnChangeTone1 == \E value \in EditValues : OnChange("tone1", value)
OnChangeTone2 == \E value \in EditValues : OnChange("tone2", value)
OnChangeTone3 == \E value \in EditValues : OnChange("tone3", value)
OnChangeTone4 == \E value \in EditValues : OnChange("tone4", value)
OnChangeTone0 == \E value \in EditValues : OnChange("tone0", value)

Next ==
    \/ Construct
    \/ Update
    \/ OnChangeTone1
    \/ OnChangeTone2
    \/ OnChangeTone3
    \/ OnChangeTone4
    \/ OnChangeTone0

Spec == Init /\ [][Next]_vars

\* --------------------------------------- the scanning pass: specification

\* a buffer, a range inside it, a settings value and a romanizer
InitScan ==
    /\ \E t \in StringsUpTo(ScanUnits, MaxDoc) \cup {ILoveZhongWen} :
        /\ text = t
        /\ viewport \in Viewports(t)
        /\ viewport.from <= viewport.to
        /\ t = ILoveZhongWen => (viewport.from = 0 /\ viewport.to = Len(t))
    /\ settings \in SettingsSet
    /\ pinyinTable \in Tables
    /\ data = settings
    /\ registered = settings
    /\ instance = FALSE
    /\ decorations = <<>>
    /\ lastTrigger = NoTrigger
    /\ numericPinyin = <<>>
    /\ result = NoResult
    /\ pass = NoPass
    /\ pc = "input"

\* computeDecorations(view, settings) on the drawn inputs
RunPass ==
    /\ pc = "input"
    /\ pass' = ScanPass(text, viewport, settings, pinyinTable)
    /\ decorations' = computeDecorations(text, viewport, settings, pinyinTable)
    /\ pc' = "done"
    /\ UNCHANGED <<text, viewport, settings, data, registered, instance, lastTrigger,
                   pinyinTable, numericPinyin, result>>

NextScan == RunPass

SpecScan == InitScan /\ [][NextScan]_vars

\* ------------------------------------------- tone rendering: specification

\* a romanization string (also used as the base given to addToneMark)
InitTone ==
    /\ numericPinyin \in StringsUpTo(PinyinUnits, MaxPinyinLen)
    /\ settings = DEFAULT_SETTINGS
    /\ data = settings
    /\ registered = settings
    /\ instance = FALSE
    /\ text = <<>>
    /\ viewport = [from |-> 0, to |-> 0]
    /\ decorations = <<>>
    /\ lastTrigger = NoTrigger
    /\ pinyinTable = HostTable
    /\ result = NoResult
    /\ pass = NoPass
    /\ pc = "input"

\* getAccentedColoredPinyin(numericPinyin, s) for a settings value s
ApplyGetAccented ==
    /\ pc = "input"
    /\ \E s \in SettingsSet :
        /\ settings' = s
        /\ result' =
             [op |-> "getAccentedColoredPinyin", tone |-> 0,
              accented |-> getAccentedColoredPinyin(numericPinyin, s).accented,
              color |-> getAccentedColoredPinyin(numericPinyin, s).color,
              threw |-> getAccentedColoredPinyin(numericPinyin, s).threw]
    /\ pc' = "done"
    /\ UNCHANGED <<text, viewport, data, registered, instance, decorations, lastTrigger,
                   pinyinTable, numericPinyin, pass>>

\* addToneMark(numericPinyin, tone) for a tone argument
ApplyAddToneMark ==
    /\ pc = "input"
    /\ \E tone \in ToneArgs :
        result' = [op |-> "addToneMark", tone |-> tone,
                   accented |-> addToneMark(numericPinyin, tone),
                   color |-> "", threw |-> FALSE]
    /\ pc' = "done"
    /\ UNCHANGED <<text, viewport, settings, data, registered, instance, decorations,
                   lastTrigger, pinyinTable, numericPinyin, pass>>

NextTone == ApplyGetAccented \/ ApplyAddToneMark

SpecTone == InitTone /\ [][NextTone]_vars

\* ------------------------------------------------------------------ claims

\* the position scanned after the i-th one (the stop position after the last)
NextScanned(i) ==
    IF i < Len(pass.scanned) THEN pass.scanned[i + 1] ELSE pass.pos

\* C1: after a pass, every scanned position that starts a surrogate pair lying
\* inside the range (a character above U+FFFF) is followed by the position two
\* units on, not one.
C1_SurrogatePairAdvancesByTwo ==
    pc = "done" =>
        \A i \in 1..Len(pass.scanned) :
            (/\ pass.scanned[i] + 2 <= viewport.to
             /\ codePointAt(text, pass.scanned[i]) > 65535)
                => NextScanned(i) = pass.scanned[i] + 2

\* C2: the spans a pass adds start at strictly increasing offsets, do not
\* overlap (each ends at or before the start of the next), and each lies inside
\* [from, to).
C2_SpansIncreasingDisjointInRange ==
    pc = "done" =>
        \A i \in 1..Len(decorations) :
            /\ viewport.from <= decorations[i].from
            /\ decorations[i].from < decorations[i].to
            /\ decorations[i].to <= viewport.to
            /\ i < Len(decorations) =>
                  /\ decorations[i].from < decorations[i + 1].from
                  /\ decorations[i].to <= decorations[i + 1].from

\* two annotated ideographs, the first following a high surrogate inside the range
C2_Witness ==
    /\ pc = "done"
    /\ Len(decorations) >= 2
    /\ \E p \in viewport.from..(decorations[1].from - 1) : IsHighSurrogate(text[p + 1])

\* the positions of [from, to) whose character is in U+4E00..U+9FFF
ChinesePositions ==
    {p \in viewport.from..(viewport.to - 1) :
        codePointAt(text, p) >= 19968 /\ codePointAt(text, p) <= 40959}

\* C3: a pass emits an annotation starting at p exactly when p is in [from, to)
\* and the character at p has a code point in U+4E00..U+9FFF, one annotation per
\* such position; the buffer of 7 other characters followed by 2 ideographs,
\* scanned in full, yields exactly 2 annotations, at positions 7 and 8.
C3_AnnotationIffChinese ==
    pc = "done" =>
        /\ {decorations[i].from : i \in 1..Len(decorations)} = ChinesePositions
        /\ Len(decorations) = Cardinality(ChinesePositions)
        /\ text = ILoveZhongWen =>
              /\ Len(decorations) = 2
              /\ decorations[1].from = 7
              /\ decorations[2].from = 8

C3_Witness ==
    /\ pc = "done"
    /\ text = ILoveZhongWen
    /\ Len(decorations) = 2
    /\ settings # DEFAULT_SETTINGS

\* what the romanizer returned for the character under the i-th span
RomanizedAt(i) == pinyinTable[text[decorations[i].from + 1]]

\* C8: a pass over any buffer, range, settings value and romanizer raises no
\* error, ends within to - from iterations at position to, scans every position
\* of the range once, and a character whose romanization is an empty array or an
\* empty string gets the neutral colour and an empty tooltip, one whose
\* romanization has no letters-digit shape gets the neutral colour and that
\* string as tooltip.
C8_PassCompletesWithoutError ==
    pc = "done" =>
        /\ ~pass.error
        /\ ~pass.running
        /\ pass.pos = viewport.to
        /\ pass.scanned = [i \in 1..(viewport.to - viewport.from) |-> viewport.from + i - 1]
        /\ \A i \in 1..Len(decorations) :
              /\ RomanizedAt(i) \in {<<>>, << <<>> >>}
                    => decorations[i].deco = Mark(settings.tone0, <<>>)
              /\ RomanizedAt(i) = << <<19968>> >>
                    => decorations[i].deco = Mark(settings.tone0, <<19968>>)

\* a pass that annotated a character the romanizer returned an empty array for
C8_Witness ==
    /\ pc = "done"
    /\ \E i \in 1..Len(decorations) : RomanizedAt(i) = <<>>
    /\ \E i \in 1..Len(decorations) : RomanizedAt(i) = << <<19968>> >>

\* a-z, A-Z and the two u-umlaut letters
Letters == (97..122) \cup (65..90) \cup {252, 220}

\* s is one or more letters followed by the single digit of tone n
LettersThenDigit(s, n) ==
    /\ Len(s) >= 2
    /\ s[Len(s)] = 48 + n
    /\ \A i \in 1..(Len(s) - 1) : s[i] \in Letters

\* the colour field of tone n
ToneColor(s, n) ==
    CASE n = 1 -> s.tone1 [] n = 2 -> s.tone2 [] n = 3 -> s.tone3 [] n = 4 -> s.tone4
      [] OTHER -> s.tone0

\* C4: the colour getAccentedColoredPinyin returns is settings.toneN when the
\* string is letters followed by the digit N in 1..4, and settings.tone0 in
\* every other case.
C4_ColourByToneDigit ==
    (pc = "done" /\ result.op = "getAccentedColoredPinyin") =>
        /\ \A n \in 1..4 :
              LettersThenDigit(numericPinyin, n) => result.color = ToneColor(settings, n)
        /\ (~\E n \in 1..4 : LettersThenDigit(numericPinyin, n))
              => result.color = settings.tone0

\* ma4 under the non-default settings value
C4_Witness ==
    /\ pc = "done"
    /\ result.op = "getAccentedColoredPinyin"
    /\ numericPinyin = <<109, 97, 52>>
    /\ result.color = "#444"

MarkableLetters == {97, 65, 111, 79, 101, 69, 105, 73, 117, 85, 252, 220}

\* the index (1-based) the mark belongs at: the first occurrence of the first of
\* a, A, o, O, e, E present in base, else the rightmost i, I, u, U, u-umlaut
ExpectedMarkIndex(base) ==
    IF \E j \in 1..6 : \E i \in 1..Len(base) : base[i] = vowelsOrder[j]
    THEN LET j == CHOOSE j \in 1..6 :
                    /\ \E i \in 1..Len(base) : base[i] = vowelsOrder[j]
                    /\ \A h \in 1..(j - 1) : \A i \in 1..Len(base) : base[i] # vowelsOrder[h]
         IN CHOOSE i \in 1..Len(base) :
                base[i] = vowelsOrder[j] /\ \A h \in 1..(i - 1) : base[h] # vowelsOrder[j]
    ELSE CHOOSE i \in 1..Len(base) :
            /\ base[i] \in {105, 73, 117, 85, 252, 220}
            /\ \A h \in (i + 1)..Len(base) : base[h] \notin {105, 73, 117, 85, 252, 220}

\* C5: for a base holding a markable letter and a tone in 1..4, addToneMark
\* returns a string of the same length that differs from base at exactly the
\* index given by the priority rule, where the letter is replaced by the
\* tone-th entry of its row of the tone table.
C5_OneLetterMarkedByPriority ==
    (/\ pc = "done"
     /\ result.op = "addToneMark"
     /\ result.tone \in 1..4
     /\ \E i \in 1..Len(numericPinyin) : numericPinyin[i] \in MarkableLetters) =>
        LET k == ExpectedMarkIndex(numericPinyin)
        IN /\ Len(result.accented) = Len(numericPinyin)
           /\ result.accented[k] = toneMap[numericPinyin[k]][result.tone]
           /\ result.accented[k] # numericPinyin[k]
           /\ \A i \in 1..Len(numericPinyin) :
                 i # k => result.accented[i] = numericPinyin[i]

\* miu with tone 2: the u, not the i, carries the acute
C5_Witness ==
    /\ pc = "done"
    /\ result.op = "addToneMark"
    /\ result.tone = 2
    /\ numericPinyin = <<109, 105, 117>>
    /\ result.accented = <<109, 105, 250>>

\* C6: addToneMark returns base unchanged for a tone outside 1..4; for letters
\* followed by such a digit getAccentedColoredPinyin returns the letters
\* unmarked and the neutral colour.
C6_NoMarkOutsideOneToFour ==
    pc = "done" =>
        /\ (result.op = "addToneMark" /\ result.tone \notin 1..4)
              => result.accented = numericPinyin
        /\ (result.op = "getAccentedColoredPinyin"
            /\ \E n \in {0, 5, 6, 7, 8, 9} : LettersThenDigit(numericPinyin, n))
              => /\ result.accented = SubSeq(numericPinyin, 1, Len(numericPinyin) - 1)
                 /\ result.color = settings.tone0

\* ma0: the letters ma come back unmarked, in the neutral colour
C6_Witness ==
    /\ pc = "done"
    /\ result.op = "getAccentedColoredPinyin"
    /\ numericPinyin = <<109, 97, 48>>
    /\ result.accented = <<109, 97>>
    /\ result.color = settings.tone0

\* C7: for letters holding no markable letter followed by a digit N in 1..4,
\* getAccentedColoredPinyin returns the letters unchanged and the colour of
\* tone N.
C7_NoVowelKeepsToneColour ==
    (pc = "done" /\ result.op = "getAccentedColoredPinyin") =>
        \A n \in 1..4 :
            (/\ LettersThenDigit(numericPinyin, n)
             /\ \A i \in 1..(Len(numericPinyin) - 1) :
                    numericPinyin[i] \notin MarkableLetters)
                => /\ result.accented = SubSeq(numericPinyin, 1, Len(numericPinyin) - 1)
                   /\ result.color = ToneColor(settings, n)

\* mm2
C7_Witness ==
    /\ pc = "done"
    /\ result.op = "getAccentedColoredPinyin"
    /\ numericPinyin = <<109, 109, 50>>
    /\ result.accented = <<109, 109>>
    /\ result.color = settings.tone2

\* C9: the plugin's stored decorations are those computeDecorations yields on
\* the document, viewport and settings as they were at the latest construction
\* or update with docChanged or viewportChanged set.
C9_DecorationsFromLatestTrigger ==
    instance =>
        decorations =
            computeDecorations(lastTrigger.text, lastTrigger.viewport,
                               lastTrigger.settings, pinyinTable)

\* stored decorations that are stale against the settings edited since
C9_Witness ==
    /\ instance
    /\ decorations # <<>>
    /\ lastTrigger.settings # settings
    /\ decorations # computeDecorations(text, viewport, settings, pinyinTable)

\* C10: a step that edits a colour leaves the stored decorations as they are,
\* and a step that recomputes for an existing instance (the document or viewport
\* moved, or a new trigger was recorded) yields the decorations of the settings
\* object's current fields, not of the fields at registration.
C10_EditVisibleAtNextRecompute ==
    [][/\ settings' # settings => decorations' = decorations
       /\ (instance /\ (text' # text \/ viewport' # viewport \/ lastTrigger' # lastTrigger))
             => decorations' = computeDecorations(text', viewport', settings', pinyinTable')
      ]_vars

\* decorations recomputed after an edit: they carry the edited colour, which the
\* settings at registration did not hold
C10_Witness ==
    /\ instance
    /\ settings # registered
    /\ lastTrigger.settings = settings
    /\ decorations # <<>>
    /\ decorations = computeDecorations(text, viewport, settings, pinyinTable)
    /\ decorations # computeDecorations(text, viewport, registered, pinyinTable)

====
